---- MODULE Spec2Model ----
(***************************************************************************)
(* Model of venus_transit_app.py: the Streamlit script                     *)
(* VenusTransitSimulation.create_simulation, which is re-executed from top *)
(* to bottom on every redraw cycle (first page load, a button click, a     *)
(* widget change, or the script's own st.rerun()), together with the two   *)
(* pure functions generate_orbital_data and is_transit_occurring.          *)
(*                                                                         *)
(* Units.  Lengths are in 1/100 AU, the slider value in 1/100, the         *)
(* effective time (time * speed_multiplier) in 1/100 day, angles in whole  *)
(* degrees, sines and cosines in 1/1000.  time.sleep(0.1) is real time     *)
(* only and has no effect on the state.                                    *)
(***************************************************************************)
EXTENDS Integers, Sequences, FiniteSets, TLC

VARIABLES
    session_state,     \* st.session_state: a function on a subset of {"time","is_playing"}
    show_orbits,       \* value of the "Show Orbital Paths" checkbox
    speed_multiplier,  \* value of the "Simulation Speed" slider, in 1/100
    rerun_pending,     \* st.rerun() was called at the end of the last run
    frame,             \* what the last run handed to the page
    trigger,           \* what started the last run of the script
    prev,              \* st.session_state on entry to the last run
    playTicks,         \* runs whose "Animation logic" branch was taken since time was last 0
    probe              \* inputs and results of a direct call of is_transit_occurring

vars == <<session_state, show_orbits, speed_multiplier, rerun_pending,
          frame, trigger, prev, playTicks, probe>>

appVars == <<session_state, show_orbits, speed_multiplier, rerun_pending,
             frame, trigger, prev, playTicks>>

----------------------------------------------------------------------------
(* Bounds *)

MaxTime == 40

GridA == 2

GridB == 17

----------------------------------------------------------------------------
(* Program constants *)

earth_radius == 100

venus_radius == 72

earth_orbital_period == 36525

venus_orbital_period == 22470

transit_threshold == 15

TIME_STEP == 2

SpeedValues == {50, 100, 150, 200}

DefaultSpeed == 100

DefaultShowOrbits == TRUE

----------------------------------------------------------------------------
(* Arithmetic *)

\* np.sqrt on a non-negative number, rounded down to the unit of length.
\* For an integer t, ISqrt(n) < t exactly when sqrt(n) < t.
ISqrt(n) == CHOOSE r \in 0..n : r * r <= n /\ (r + 1) * (r + 1) > n

\* np.sin of an angle given in whole degrees, in 1/1000 (Bhaskara's rational
\* approximation; exact at 0, 30, 90, 150 and 180 degrees).
SinHalf(d) == (4000 * d * (180 - d)) \div (40500 - d * (180 - d))

SinMilli(d) == IF d % 360 <= 180 THEN SinHalf(d % 360)
               ELSE 0 - SinHalf((d % 360) - 180)

CosMilli(d) == SinMilli(d + 90)

\* radius * (value in 1/1000), rounded to the nearest unit of length
Scale(radius, m) == IF m >= 0 THEN (radius * m + 500) \div 1000
                    ELSE 0 - ((radius * (0 - m) + 500) \div 1000)

\* angle = (2 * np.pi * time) / period, in whole degrees within one turn
Angle(time, period) == (360 * (time % period)) \div period

----------------------------------------------------------------------------
(* Pure functions *)

\* variant: x and y taken from the wrong function
generate_orbital_data_swapped(time, radius, period) ==
    LET angle == Angle(time, period)
        x == Scale(radius, SinMilli(angle))
        y == Scale(radius, CosMilli(angle))
    IN  <<x, y>>

generate_orbital_data(time, radius, period) ==
    LET angle == Angle(time, period)
        x == Scale(radius, CosMilli(angle))
        y == Scale(radius, SinMilli(angle))
    IN  <<x, y>>

SquaredDistance(earth_x, earth_y, venus_x, venus_y) ==
    (earth_x - venus_x) * (earth_x - venus_x)
  + (earth_y - venus_y) * (earth_y - venus_y)

\* variant: non-strict comparison with the threshold
is_transit_occurring_inclusive(earth_x, earth_y, venus_x, venus_y) ==
    LET d2 == SquaredDistance(earth_x, earth_y, venus_x, venus_y)
    IN  ISqrt(d2) < transit_threshold \/ d2 = transit_threshold * transit_threshold

is_transit_occurring(earth_x, earth_y, venus_x, venus_y) ==
    LET angular_distance == ISqrt(SquaredDistance(earth_x, earth_y, venus_x, venus_y))
    IN  angular_distance < transit_threshold

----------------------------------------------------------------------------
(* The sections of create_simulation, in the order the script runs them *)

\* variant: the session state is set up again on every run
InitSession_everyRun(ss) == ("time" :> 0) @@ ("is_playing" :> FALSE)

\* if 'time' not in st.session_state: ... ; if 'is_playing' not in ...
InitSession(ss) ==
    LET s1 == IF "time" \notin DOMAIN ss THEN ss @@ ("time" :> 0) ELSE ss
    IN  IF "is_playing" \notin DOMAIN s1 THEN s1 @@ ("is_playing" :> FALSE) ELSE s1

\* variant: Play also restarts the clock
play_restarts(ss) == [ss EXCEPT !["time"] = 0, !["is_playing"] = TRUE]

play(ss) == [ss EXCEPT !["is_playing"] = TRUE]

\* variant: Pause has no effect
pause_ignored(ss) == ss

pause(ss) == [ss EXCEPT !["is_playing"] = FALSE]

\* variant: Reset clears the time but leaves the animation running
reset_keepsPlaying(ss) == [ss EXCEPT !["time"] = 0]

reset(ss) == [ss EXCEPT !["time"] = 0, !["is_playing"] = FALSE]

\* variant: time advances whether or not the animation is playing
tick_whilePaused(ss) == [ss EXCEPT !["time"] = @ + TIME_STEP]

\* variant: the animation stops after each step
tick_stops(ss) == IF ss["is_playing"]
                  THEN [ss EXCEPT !["time"] = @ + TIME_STEP, !["is_playing"] = FALSE]
                  ELSE ss

\* Animation logic
tick(ss) == IF ss["is_playing"]
            THEN [ss EXCEPT !["time"] = @ + TIME_STEP]
            ELSE ss

\* session state at the point where the "Animation logic" test is made
AfterButtons(ss, play_button, pause_button, reset_button) ==
    LET s0 == InitSession(ss)
        s1 == IF play_button THEN play(s0) ELSE s0
        s2 == IF pause_button THEN pause(s1) ELSE s1
    IN  IF reset_button THEN reset(s2) ELSE s2

\* session state at the end of the run
RunClock(ss, play_button, pause_button, reset_button) ==
    tick(AfterButtons(ss, play_button, pause_button, reset_button))

EarthTime(ss, speed) == ss["time"] * speed

\* variant: Venus is placed without the speed multiplier
VenusTime_unscaled(ss, speed) == ss["time"] * DefaultSpeed

VenusTime(ss, speed) == ss["time"] * speed

\* positions, transit flag and displayed time of one run
Render(ss, show, speed) ==
    LET earth == generate_orbital_data(EarthTime(ss, speed), earth_radius, earth_orbital_period)
        venus == generate_orbital_data(VenusTime(ss, speed), venus_radius, venus_orbital_period)
    IN  [time       |-> ss["time"],
         earth      |-> earth,
         venus      |-> venus,
         orbits     |-> show,
         is_transit |-> is_transit_occurring(earth[1], earth[2], venus[1], venus[2])]

\* variant: no further run is ever requested
AutoPlay_never(ss) == FALSE

\* Auto-play mechanism
AutoPlay(ss) == ss["is_playing"]

NoFrame == [time |-> 0, earth |-> <<0, 0>>, venus |-> <<0, 0>>,
            orbits |-> FALSE, is_transit |-> FALSE]

NoProbe == [a |-> <<0, 0>>, b |-> <<0, 0>>, done |-> FALSE, ab |-> FALSE, ba |-> FALSE]

----------------------------------------------------------------------------
(* One run of the script *)

create_simulation(cause, play_button, pause_button, reset_button, show, speed) ==
    LET mid == AfterButtons(session_state, play_button, pause_button, reset_button)
        ss  == RunClock(session_state, play_button, pause_button, reset_button)
    IN  /\ mid["is_playing"] => mid["time"] < MaxTime
        /\ session_state' = ss
        /\ show_orbits' = show
        /\ speed_multiplier' = speed
        /\ frame' = Render(ss, show, speed)
        /\ rerun_pending' = AutoPlay(ss)
        /\ trigger' = cause
        /\ prev' = session_state
        /\ playTicks' = IF reset_button THEN 0
                        ELSE IF mid["is_playing"] THEN playTicks + 1
                        ELSE playTicks
        /\ UNCHANGED probe

Started == DOMAIN session_state = {"time", "is_playing"}

\* first run of a session: no button has been clicked, widgets have their defaults
CycleLoad ==
    /\ DOMAIN session_state = {}
    /\ create_simulation("load", FALSE, FALSE, FALSE, DefaultShowOrbits, DefaultSpeed)

CyclePlay ==
    /\ Started
    /\ create_simulation("play", TRUE, FALSE, FALSE, show_orbits, speed_multiplier)

CyclePause ==
    /\ Started
    /\ create_simulation("pause", FALSE, TRUE, FALSE, show_orbits, speed_multiplier)

CycleReset ==
    /\ Started
    /\ create_simulation("reset", FALSE, FALSE, TRUE, show_orbits, speed_multiplier)

\* the checkbox or the slider was changed
CycleWidget ==
    /\ Started
    /\ \E show \in BOOLEAN, speed \in SpeedValues :
          /\ <<show, speed>> # <<show_orbits, speed_multiplier>>
          /\ (show = show_orbits \/ speed = speed_multiplier)
          /\ create_simulation("widget", FALSE, FALSE, FALSE, show, speed)

\* the run requested by st.rerun()
CycleRerun ==
    /\ Started
    /\ rerun_pending
    /\ create_simulation("rerun", FALSE, FALSE, FALSE, show_orbits, speed_multiplier)

Init ==
    /\ session_state = << >>
    /\ show_orbits = DefaultShowOrbits
    /\ speed_multiplier = DefaultSpeed
    /\ rerun_pending = FALSE
    /\ frame = NoFrame
    /\ trigger = "none"
    /\ prev = << >>
    /\ playTicks = 0
    /\ probe = NoProbe

Next ==
    \/ CycleLoad
    \/ CyclePlay
    \/ CyclePause
    \/ CycleReset
    \/ CycleWidget
    \/ CycleRerun

Spec == Init /\ [][Next]_vars

\* st.rerun() restarts the script at once, so a requested run is not postponed forever
SpecLive == Init /\ [][Next]_vars /\ WF_vars(CycleLoad) /\ WF_vars(CycleRerun)

----------------------------------------------------------------------------
(* Direct calls of is_transit_occurring on a grid of points *)

InitTransit ==
    /\ session_state = << >>
    /\ show_orbits = DefaultShowOrbits
    /\ speed_multiplier = DefaultSpeed
    /\ rerun_pending = FALSE
    /\ frame = NoFrame
    /\ trigger = "none"
    /\ prev = << >>
    /\ playTicks = 0
    /\ \E ax \in 0..GridA, ay \in 0..GridA, bx \in 0..GridB, by \in 0..GridB :
          probe = [a |-> <<ax, ay>>, b |-> <<bx, by>>,
                   done |-> FALSE, ab |-> FALSE, ba |-> FALSE]

Detect ==
    /\ ~probe.done
    /\ probe' = [probe EXCEPT
                   !.done = TRUE,
                   !.ab = is_transit_occurring(probe.a[1], probe.a[2], probe.b[1], probe.b[2]),
                   !.ba = is_transit_occurring(probe.b[1], probe.b[2], probe.a[1], probe.a[2])]
    /\ UNCHANGED appVars

NextTransit == Detect

SpecTransit == InitTransit /\ [][NextTransit]_vars

----------------------------------------------------------------------------
(* Views of the state used by the properties *)

Time == IF Started THEN session_state["time"] ELSE 0

IsPlaying == Started /\ session_state["is_playing"]

\* the last run was started by something other than the first page load
Cycled == trigger \in {"play", "pause", "reset", "widget", "rerun"}

----------------------------------------------------------------------------
(* Properties *)

\* C1: a run in which Reset was clicked ends with time = 0 and is_playing =
\* False, whatever the state before it was; the tick of that run does not
\* advance time, the page shows time 0 and no further run is requested.
C1_ResetYieldsZeroPaused ==
    trigger = "reset" =>
        /\ session_state["time"] = 0
        /\ ~session_state["is_playing"]
        /\ frame.time = 0
        /\ ~rerun_pending

\* a reset that was clicked while Playing, after at least two ticks
C1_Witness ==
    /\ trigger = "reset"
    /\ prev["is_playing"]
    /\ prev["time"] >= 2 * TIME_STEP
    /\ session_state["time"] = 0

\* C2: a run whose tick is made while Paused leaves time unchanged, a run
\* whose tick is made while Playing adds exactly TIME_STEP = 2, so that after
\* N ticks made while Playing since time was last 0, time = N * TIME_STEP;
\* Play clicked while Paused at time 0 gives Playing and time = 2.
C2_TickAdvancesOnlyWhilePlaying ==
    /\ Started => session_state["time"] = playTicks * TIME_STEP
    /\ (trigger \in {"widget", "rerun"} /\ ~prev["is_playing"])
          => session_state["time"] = prev["time"]
    /\ (trigger \in {"widget", "rerun"} /\ prev["is_playing"])
          => session_state["time"] = prev["time"] + 2
    /\ (trigger = "play" /\ ~prev["is_playing"] /\ prev["time"] = 0)
          => (session_state["is_playing"] /\ session_state["time"] = 2)

\* three consecutive ticks were made while Playing
C2_Witness ==
    /\ trigger = "rerun"
    /\ prev["is_playing"]
    /\ playTicks = 3
    /\ session_state["time"] = 6

\* C3: the Play block turns Paused into Playing, changes nothing when already
\* Playing and leaves time as it was; the time of a run started by Play
\* differs from the time before it only by that run's own tick.
C3_PlayKeepsTime ==
    /\ Started =>
          /\ play(session_state)["time"] = session_state["time"]
          /\ play(session_state)["is_playing"]
          /\ session_state["is_playing"] => play(session_state) = session_state
    /\ trigger = "play" =>
          LET mid == AfterButtons(prev, TRUE, FALSE, FALSE)
          IN  /\ mid["time"] = prev["time"]
              /\ mid["is_playing"]
              /\ session_state["is_playing"]
              /\ session_state["time"] = prev["time"] + TIME_STEP

\* Play was clicked while Paused at a time other than 0
C3_Witness ==
    /\ trigger = "play"
    /\ ~prev["is_playing"]
    /\ prev["time"] > 0
    /\ session_state["is_playing"]

\* C4: a run in which Pause was clicked ends Paused with time as it was
\* before, and requests no further run; while Paused, every run not started
\* by Play or Reset leaves time unchanged and stays Paused.
C4_PauseFreezesTime ==
    /\ trigger = "pause" =>
          /\ ~session_state["is_playing"]
          /\ session_state["time"] = prev["time"]
          /\ ~rerun_pending
          /\ ~prev["is_playing"] => session_state = prev
    /\ (trigger \in {"pause", "widget", "rerun"} /\ ~prev["is_playing"]) =>
          /\ session_state["time"] = prev["time"]
          /\ ~session_state["is_playing"]

\* Pause was clicked while Playing at a time other than 0
C4_Witness ==
    /\ trigger = "pause"
    /\ prev["is_playing"]
    /\ prev["time"] > 0
    /\ session_state["time"] = prev["time"]

\* C5: time is never negative, the session state is initialised by the first
\* run only (time = 0, is_playing = False), and no run other than one started
\* by Reset ends with a smaller time than it began with.
C5_TimeNonNegativeMonotone ==
    /\ Started \/ (trigger = "none" /\ DOMAIN session_state = {})
    /\ Started => session_state["time"] >= 0
    /\ trigger = "load" => (session_state["time"] = 0 /\ ~session_state["is_playing"])
    /\ (Cycled /\ trigger # "reset") => session_state["time"] >= prev["time"]

\* a run requested by st.rerun() found time > 0 in the session and advanced it
C5_Witness ==
    /\ trigger = "rerun"
    /\ prev["time"] > 0
    /\ session_state["time"] > prev["time"]

\* C6: the tick leaves is_playing as it finds it; is_playing differs between
\* the start and the end of a run only if Play, Pause or Reset was clicked.
C6_TickKeepsPlayState ==
    /\ Started => tick(session_state)["is_playing"] = session_state["is_playing"]
    /\ trigger \in {"widget", "rerun"}
          => session_state["is_playing"] = prev["is_playing"]
    /\ trigger = "play" => session_state["is_playing"]
    /\ (Cycled /\ session_state["is_playing"] # prev["is_playing"])
          => trigger \in {"play", "pause", "reset"}

\* a tick that advanced time and left the animation Playing
C6_Witness ==
    /\ trigger = "rerun"
    /\ session_state["is_playing"]
    /\ session_state["time"] = prev["time"] + TIME_STEP
    /\ session_state["time"] >= 2 * TIME_STEP

\* C7: a run started by a change of the slider or the checkbox leaves
\* is_playing unchanged and changes time only by its own tick; the positions
\* of both planets are those at time * speed_multiplier, and the stored time
\* is shown unscaled.
C7_WidgetsAreViewOnly ==
    /\ trigger = "widget" =>
          /\ session_state["is_playing"] = prev["is_playing"]
          /\ session_state["time"] =
                prev["time"] + (IF prev["is_playing"] THEN TIME_STEP ELSE 0)
    /\ Started =>
          /\ speed_multiplier \in SpeedValues
          /\ frame.time = session_state["time"]
          /\ frame.orbits = show_orbits
          /\ frame.earth = generate_orbital_data(session_state["time"] * speed_multiplier,
                                                 earth_radius, earth_orbital_period)
          /\ frame.venus = generate_orbital_data(session_state["time"] * speed_multiplier,
                                                 venus_radius, venus_orbital_period)

\* the slider was moved to 2.0 while Paused at a time other than 0
C7_Witness ==
    /\ trigger = "widget"
    /\ speed_multiplier = 200
    /\ speed_multiplier # DefaultSpeed
    /\ ~prev["is_playing"]
    /\ session_state["time"] = prev["time"]
    /\ session_state["time"] >= 10 * TIME_STEP

\* C8: is_transit_occurring is true exactly when the squared distance of the
\* two points is below 0.15^2; at distance exactly 0.15 it is false, for
\* equal points it is true, and swapping the points does not change it.
C8_TransitIffStrictlyCloser ==
    probe.done =>
        LET d2 == SquaredDistance(probe.a[1], probe.a[2], probe.b[1], probe.b[2])
        IN  /\ probe.ab <=> d2 < 225
            /\ d2 = 225 => ~probe.ab
            /\ probe.a = probe.b => probe.ab
            /\ probe.ab = probe.ba

\* two points exactly 0.15 apart, not on a common axis
C8_Witness ==
    /\ probe.done
    /\ probe.a = <<0, 0>>
    /\ probe.b = <<9, 12>>
    /\ ~probe.ab

\* C9: whenever time = 0, for every value of the slider, Earth is shown at
\* (1.0, 0.0), Venus at (0.72, 0.0), 0.28 apart, and no transit is reported.
C9_PositionsAtTimeZero ==
    (Started /\ session_state["time"] = 0) =>
        /\ frame.earth = <<100, 0>>
        /\ frame.venus = <<72, 0>>
        /\ ISqrt(SquaredDistance(frame.earth[1], frame.earth[2],
                                 frame.venus[1], frame.venus[2])) = 28
        /\ ~frame.is_transit

\* the state after a reset made with the slider at 2.0
C9_Witness ==
    /\ trigger = "reset"
    /\ speed_multiplier = 200
    /\ prev["time"] > 0
    /\ session_state["time"] = 0
    /\ frame.earth = <<100, 0>>

\* C10: a run requests another run exactly when it ends Playing; while
\* Playing, time eventually reaches the bound unless the animation is paused
\* or reset first.
C10_LoopRepeatsWhilePlaying ==
    /\ [](Started => (rerun_pending <=> session_state["is_playing"]))
    /\ IsPlaying ~> (~IsPlaying \/ Time >= MaxTime)

\* the animation ran, by its own reruns, up to the bound
C10_Witness ==
    /\ trigger = "rerun"
    /\ rerun_pending
    /\ session_state["is_playing"]
    /\ session_state["time"] >= MaxTime

====
